---- MODULE Spec2Model ----
(***************************************************************************)
(* A model of openapi-router (src/src/openapi-router.ts, src/src/types.ts) *)
(*                                                                         *)
(* JavaScript strings are modelled as sequences of one-character strings.  *)
(* A JavaScript value is a record with a tag field t: a string value is    *)
(* [t |-> "string", v |-> <<...>>], undefined is [t |-> "undefined"], a    *)
(* call that raised is [t |-> "TypeError"] and a slot no call has filled   *)
(* yet is [t |-> "none"].                                                  *)
(***************************************************************************)
EXTENDS Integers, Sequences, FiniteSets, TLC

\* Longest route pattern the path-conversion specification draws.
MaxLen == 4

\* The characters patterns are drawn from: two name characters, the path
\* separator, the parameter prefix, the query marker, a hyphen, and the two
\* braces (which are also characters that neither the regular expression's
\* class nor ParamDelimiter contains).
Alphabet == {"a", "b", "/", ":", "?", "-", "{", "}"}

RECURSIVE StringsUpTo(_)
StringsUpTo(n) ==
    IF n = 0 THEN {<< >>}
    ELSE LET shorter == StringsUpTo(n - 1)
         IN  shorter \cup {Append(s, c) : s \in {x \in shorter : Len(x) = n - 1}, c \in Alphabet}

Patterns == StringsUpTo(MaxLen)

Str(s) == [t |-> "string", v |-> s]
Undefined == [t |-> "undefined"]
TypeError == [t |-> "TypeError"]
None == [t |-> "none"]

\* Index of the first occurrence of c in s, 0 when there is none.
IndexOf(s, c) ==
    IF \E i \in 1..Len(s) : s[i] = c
    THEN CHOOSE i \in 1..Len(s) : s[i] = c /\ \A j \in 1..(i - 1) : s[j] # c
    ELSE 0

Contains(s, c) == \E i \in 1..Len(s) : s[i] = c

-----------------------------------------------------------------------------
(* The runtime conversion: openapi-router.ts, toOpenApiPath.               *)

\* The character class [A-Za-z0-9_] of the regular expression.
NameChar ==
    {"A", "B", "C", "D", "E", "F", "G", "H", "I", "J", "K", "L", "M",
     "N", "O", "P", "Q", "R", "S", "T", "U", "V", "W", "X", "Y", "Z",
     "a", "b", "c", "d", "e", "f", "g", "h", "i", "j", "k", "l", "m",
     "n", "o", "p", "q", "r", "s", "t", "u", "v", "w", "x", "y", "z",
     "0", "1", "2", "3", "4", "5", "6", "7", "8", "9", "_"}

\* String.prototype.split(sep) with a one-character separator: the list of
\* the pieces between the separators, never empty.
RECURSIVE split(_, _)
split(s, sep) ==
    LET i == IndexOf(s, sep)
    IN  IF i = 0 THEN << s >>
        ELSE << SubSeq(s, 1, i - 1) >> \o split(SubSeq(s, i + 1, Len(s)), sep)

\* Mutant of NameRun: the name runs to the next delimiter of the type-level
\* conversion, /:([^\/.\-()?&:]+)/g, not to the end of the name characters.
RECURSIVE NameRunToDelimiter(_)
NameRunToDelimiter(s) ==
    IF s # << >> /\ Head(s) \notin {"/", ".", "-", ")", "(", "?", "&", ":"}
    THEN 1 + NameRunToDelimiter(Tail(s))
    ELSE 0

\* Length of the longest prefix of s made of name characters: what the
\* greedy [A-Za-z0-9_]+ consumes.
RECURSIVE NameRun(_)
NameRun(s) ==
    IF s # << >> /\ Head(s) \in NameChar THEN 1 + NameRun(Tail(s)) ELSE 0

\* Mutant of replace: a lazy quantifier, /:([A-Za-z0-9_]+?)/g, takes one name
\* character per match.
RECURSIVE replaceLazy(_)
replaceLazy(s) ==
    IF s = << >> THEN << >>
    ELSE IF Head(s) = ":" /\ NameRun(Tail(s)) > 0
         THEN << "{", s[2], "}" >> \o replaceLazy(SubSeq(s, 3, Len(s)))
         ELSE << Head(s) >> \o replaceLazy(Tail(s))

\* Mutant of replace: the g flag is missing, only the first match is replaced.
RECURSIVE replaceFirst(_)
replaceFirst(s) ==
    IF s = << >> THEN << >>
    ELSE IF Head(s) = ":" /\ NameRun(Tail(s)) > 0
         THEN LET n == NameRun(Tail(s))
              IN  << "{" >> \o SubSeq(s, 2, n + 1) \o << "}" >> \o SubSeq(s, n + 2, Len(s))
         ELSE << Head(s) >> \o replaceFirst(Tail(s))

\* Mutant of replace: the colon is optional, /:?([A-Za-z0-9_]+)/g, so every
\* run of name characters is wrapped.
RECURSIVE replaceAnyName(_)
replaceAnyName(s) ==
    IF s = << >> THEN << >>
    ELSE LET t == IF Head(s) = ":" /\ NameRun(Tail(s)) > 0 THEN Tail(s) ELSE s
             n == NameRun(t)
         IN  IF n > 0
             THEN << "{" >> \o SubSeq(t, 1, n) \o << "}" >> \o replaceAnyName(SubSeq(t, n + 1, Len(t)))
             ELSE << Head(s) >> \o replaceAnyName(Tail(s))

\* Mutant of replace: the name may be empty, /:([A-Za-z0-9_]*)/g, so every
\* ':' is replaced.
RECURSIVE replaceEveryColon(_)
replaceEveryColon(s) ==
    IF s = << >> THEN << >>
    ELSE IF Head(s) = ":"
         THEN LET n == NameRun(Tail(s))
              IN  << "{" >> \o SubSeq(s, 2, n + 1) \o << "}" >>
                    \o replaceEveryColon(SubSeq(s, n + 2, Len(s)))
         ELSE << Head(s) >> \o replaceEveryColon(Tail(s))

\* Mutant of replace: the y flag in place of g, /:([A-Za-z0-9_]+)/y, so only
\* a match at the very start is replaced.
replaceSticky(s) ==
    IF s # << >> /\ Head(s) = ":" /\ NameRun(Tail(s)) > 0
    THEN LET n == NameRun(Tail(s))
         IN  << "{" >> \o SubSeq(s, 2, n + 1) \o << "}" >> \o SubSeq(s, n + 2, Len(s))
    ELSE s

\* Mutant of replace: the replacement text is "{}", the name is dropped.
RECURSIVE replaceDroppingName(_)
replaceDroppingName(s) ==
    IF s = << >> THEN << >>
    ELSE IF Head(s) = ":" /\ NameRun(Tail(s)) > 0
         THEN << "{", "}" >> \o replaceDroppingName(SubSeq(s, NameRun(Tail(s)) + 2, Len(s)))
         ELSE << Head(s) >> \o replaceDroppingName(Tail(s))

\* s.replace(/:([A-Za-z0-9_]+)/g, "{$1}"): a left-to-right scan; at a ':'
\* followed by at least one name character the whole run is consumed and
\* written between braces, any other character is copied.
RECURSIVE replace(_)
replace(s) ==
    IF s = << >> THEN << >>
    ELSE IF Head(s) = ":" /\ NameRun(Tail(s)) > 0
         THEN LET n == NameRun(Tail(s))
              IN  << "{" >> \o SubSeq(s, 2, n + 1) \o << "}" >>
                    \o replace(SubSeq(s, n + 2, Len(s)))
         ELSE << Head(s) >> \o replace(Tail(s))

\* Mutant of First: element [1] instead of [0].
FirstOffByOne(parts) == IF Len(parts) >= 2 THEN Str(parts[2]) ELSE Undefined

\* Element [0] of a list: undefined when the list is empty.
First(parts) == IF Len(parts) >= 1 THEN Str(parts[1]) ELSE Undefined

\* Mutant of toOpenApiPath: the query is not stripped.
toOpenApiPathKeepQuery(pattern) == Str(replace(pattern))

\* toOpenApiPath(pattern): pattern.split("?")[0], then the replace; calling
\* .replace on undefined raises a TypeError.
toOpenApiPath(pattern) ==
    LET pathWithoutQuery == First(split(pattern, "?"))
    IN  IF pathWithoutQuery.t = "string"
        THEN Str(replace(pathWithoutQuery.v))
        ELSE TypeError

-----------------------------------------------------------------------------
(* The type-level conversion: types.ts ParamDelimiter, ExtractParamName,   *)
(* SkipParamName and openapi-router.ts ToOpenApiPath.                      *)

\* The one-character members of ParamDelimiter; its last member, the empty
\* string, is never matched by the single character C.
ParamDelimiter == {"/", ".", "-", ")", "(", "?", "&", ":"}

\* Mutant of ExtractParamName: only '/' ends the name.
RECURSIVE ExtractParamNameToSlash(_, _)
ExtractParamNameToSlash(S, Acc) ==
    IF S = << >> THEN Acc
    ELSE IF Head(S) = "/" THEN Acc
         ELSE ExtractParamNameToSlash(Tail(S), Append(Acc, Head(S)))

RECURSIVE ExtractParamName(_, _)
ExtractParamName(S, Acc) ==
    IF S = << >> THEN Acc
    ELSE IF Head(S) \in ParamDelimiter THEN Acc
         ELSE ExtractParamName(Tail(S), Append(Acc, Head(S)))

\* Mutant of SkipParamName: the delimiter that ends the name is dropped
\* with the name.
RECURSIVE SkipParamNameAndDelimiter(_)
SkipParamNameAndDelimiter(S) ==
    IF S = << >> THEN << >>
    ELSE IF Head(S) \in ParamDelimiter THEN Tail(S)
         ELSE SkipParamNameAndDelimiter(Tail(S))

RECURSIVE SkipParamName(_)
SkipParamName(S) ==
    IF S = << >> THEN << >>
    ELSE IF Head(S) \in ParamDelimiter THEN S
         ELSE SkipParamName(Tail(S))

\* `${infer Head}:${infer AfterColon}` splits at the first ':'; only a
\* pattern without ':' reaches the `${infer Path}?${infer _Query}` branch.
RECURSIVE ToOpenApiPath(_)
ToOpenApiPath(Pattern) ==
    LET c == IndexOf(Pattern, ":")
        q == IndexOf(Pattern, "?")
    IN  IF c # 0
        THEN LET HeadPart == SubSeq(Pattern, 1, c - 1)
                 AfterColon == SubSeq(Pattern, c + 1, Len(Pattern))
             IN  HeadPart \o << "{" >> \o ExtractParamName(AfterColon, << >>) \o << "}" >>
                   \o ToOpenApiPath(SkipParamName(AfterColon))
        ELSE IF q # 0 THEN SubSeq(Pattern, 1, q - 1)
             ELSE Pattern

-----------------------------------------------------------------------------
(* The method conversion: openapi-router.ts, toOpenApiMethod.              *)

UpperCase ==
    << "A", "B", "C", "D", "E", "F", "G", "H", "I", "J", "K", "L", "M",
       "N", "O", "P", "Q", "R", "S", "T", "U", "V", "W", "X", "Y", "Z" >>

LowerCase ==
    << "a", "b", "c", "d", "e", "f", "g", "h", "i", "j", "k", "l", "m",
       "n", "o", "p", "q", "r", "s", "t", "u", "v", "w", "x", "y", "z" >>

\* String.prototype.toLowerCase, character by character.
toLowerCase(s) ==
    [i \in 1..Len(s) |->
        IF \E k \in 1..Len(UpperCase) : UpperCase[k] = s[i]
        THEN LowerCase[CHOOSE k \in 1..Len(UpperCase) : UpperCase[k] = s[i]]
        ELSE s[i]]

\* RequestMethod of the routing library, and the wildcard a Route may carry.
RequestMethod ==
    { << "G", "E", "T" >>, << "H", "E", "A", "D" >>, << "P", "O", "S", "T" >>,
      << "P", "U", "T" >>, << "P", "A", "T", "C", "H" >>,
      << "D", "E", "L", "E", "T", "E" >>,
      << "O", "P", "T", "I", "O", "N", "S" >> }

ANY == << "A", "N", "Y" >>

\* Mutant of toOpenApiMethod: the wildcard is not mapped to GET.
toOpenApiMethodNoWildcard(method) == Str(toLowerCase(method))

\* toOpenApiMethod(method): 'ANY' becomes 'GET', then the verb is lowercased.
toOpenApiMethod(method) ==
    LET openApi == IF method = ANY THEN << "G", "E", "T" >> ELSE method
    IN  Str(toLowerCase(openApi))

-----------------------------------------------------------------------------
(* Objects. A JavaScript object is [t |-> "object", f |-> fields], fields a *)
(* function from property names to values; a schema is an opaque value.    *)

Obj(fields) == [t |-> "object", f |-> fields]
EmptyObj == Obj(<< >>)
Schema(id) == [t |-> "schema", id |-> id]
Bool(b) == [t |-> "boolean", v |-> b]
Fn(id) == [t |-> "function", id |-> id]
Arr(items) == [t |-> "array", v |-> items]

\* { ...rest } of a destructuring that takes the properties in taken out.
Rest(o, taken) == Obj([k \in (DOMAIN o.f) \ taken |-> o.f[k]])

\* o.k: undefined when o has no property k.
Get(o, k) == IF o.t = "object" /\ k \in DOMAIN o.f THEN o.f[k] ELSE Undefined

Has(o, k) == o.t = "object" /\ k \in DOMAIN o.f

\* { ...a, ...b }: b's properties win; spreading undefined adds nothing.
Spread(a, b) ==
    IF b.t # "object" THEN a
    ELSE IF a.t # "object" THEN b
    ELSE Obj(b.f @@ a.f)

\* The condition of `x ? ... : ...` for the values a config carries.
Truthy(x) ==
    \/ x.t \in {"object", "schema", "function", "array"}
    \/ x.t = "string" /\ x.v # << >>
    \/ x.t = "boolean" /\ x.v

-----------------------------------------------------------------------------
(* createSpec: openapi-router.ts.                                          *)

\* createRoute of the validation library returns the object it is given
\* (with one more, non-enumerable, method).
createRoute(routeConfig) == routeConfig

\* Mutant of transformRequest: searchParams is forwarded under its own name
\* only, query is read from a field the config does not have.
transformRequestNoRename(request) ==
    IF Truthy(request)
    THEN Spread(request, Obj("query" :> Get(request, "query")))
    ELSE Undefined

\* The request of transformedConfig: config.request with query set to its
\* searchParams, undefined when config.request is missing.
transformRequest(request) ==
    IF Truthy(request)
    THEN Spread(request, Obj("query" :> Get(request, "searchParams")))
    ELSE Undefined

\* Mutant of createSpecArguments: query is assigned on config.request
\* itself, `config.request.query = config.request.searchParams`.
createSpecArgumentsInPlace(route, config) ==
    [route |-> route,
     config |-> Spread(config, Obj("request" :> transformRequest(Get(config, "request"))))]

\* The arguments of createSpec after the call: the function reads route and
\* config and builds new objects with spreads; it assigns to neither.
createSpecArguments(route, config) == [route |-> route, config |-> config]

\* Mutant of createSpec: the pattern is forwarded as the path, unconverted.
createSpecRawPath(route, config) ==
    LET transformedConfig == Spread(config, Obj("request" :> transformRequest(Get(config, "request"))))
    IN  createRoute(Spread(Obj("method" :> toOpenApiMethod(route.method)
                               @@ "path" :> Str(route.pattern)),
                           transformedConfig))

\* createSpec(route, config): method and path from the route, then every
\* field of transformedConfig spread over them.
createSpec(route, config) ==
    LET transformedConfig == Spread(config, Obj("request" :> transformRequest(Get(config, "request"))))
    IN  createRoute(Spread(Obj("method" :> toOpenApiMethod(route.method)
                               @@ "path" :> toOpenApiPath(route.pattern)),
                           transformedConfig))

-----------------------------------------------------------------------------
(* The server builder createRouter drives: OpenAPIHono of the validation   *)
(* library, as far as createRouter and router.map use it. An instance is a *)
(* record: init, the constructor's argument; basePath, the path it mounts  *)
(* its routes under; middleware, the handlers given to use, in order;      *)
(* registry, the route configs registered for the document; routes, the    *)
(* (config, handler) pairs registered for dispatch.                        *)

\* new OpenAPIHono(init)
OpenAPIHono(init) ==
    [init |-> init, basePath |-> << "/" >>, middleware |-> << >>,
     registry |-> << >>, routes |-> << >>]

\* mergePath(base, sub) of the server library: one '/' between the two, and
\* a sub of '/' adds nothing.
mergePath(base, sub) ==
    (IF base # << >> /\ Head(base) = "/" THEN << >> ELSE << "/" >>)
      \o base
      \o (IF sub = << "/" >> THEN << >>
          ELSE (IF base # << >> /\ base[Len(base)] = "/" THEN << >> ELSE << "/" >>)
                 \o (IF sub # << >> /\ Head(sub) = "/" THEN Tail(sub) ELSE sub))

\* inst.basePath(path): a new instance under the merged base path, with a
\* registry of its own.
basePathOf(inst, p) ==
    [init |-> inst.init, basePath |-> mergePath(inst.basePath, p),
     middleware |-> inst.middleware, registry |-> << >>, routes |-> inst.routes]

\* inst.use(mw)
use(inst, mw) == [inst EXCEPT !.middleware = Append(@, mw)]

\* inst.openapi(config, handler): the config, without middleware and hide,
\* is registered for the document unless it is hidden, and the handler is
\* registered for the config's method and path.
openapi(inst, routeConfig, handler) ==
    LET r == Rest(routeConfig, {"middleware", "hide"})
    IN  [inst EXCEPT
            !.registry = IF Truthy(Get(routeConfig, "hide")) THEN @ ELSE Append(@, r),
            !.routes = Append(@, [config |-> r, handler |-> handler])]

\* inst.getOpenAPIDocument(...): one entry of paths for each registered
\* config, under the instance's base path.
getOpenAPIDocument(inst) ==
    [t |-> "document",
     paths |-> {mergePath(inst.basePath, Get(inst.registry[i], "path").v) :
                    i \in 1..Len(inst.registry)}]

-----------------------------------------------------------------------------
(* createRouter and router.map: openapi-router.ts.                         *)

\* The handler router.map hands to openapi: a closure over the caller's.
Wrapper(handler) == [t |-> "function", id |-> "wrapper", handler |-> handler]

\* Mutant of useAll: the loop runs from the last handler to the first.
RECURSIVE useAllReversed(_, _)
useAllReversed(inst, middlewares) ==
    IF middlewares = << >> THEN inst
    ELSE use(useAllReversed(inst, Tail(middlewares)), Head(middlewares))

\* The loop `for (const mw of middlewares) instance.use(mw)`.
RECURSIVE useAll(_, _)
useAll(inst, middlewares) ==
    IF middlewares = << >> THEN inst
    ELSE useAll(use(inst, Head(middlewares)), Tail(middlewares))

\* A call createRouter makes on the builder: the constructor (on 0) or a
\* method of the instance numbered on, with its argument.
BuilderCall(op, on, arg) == [op |-> op, on |-> on, arg |-> arg]

\* Mutant of toMiddlewares: a handler that is not in an array is ignored.
toMiddlewaresArrayOnly(middleware) ==
    IF ~Truthy(middleware) THEN << >>
    ELSE IF middleware.t = "array" THEN middleware.v
    ELSE << >>

\* The list the loop runs over: nothing when middleware is missing, else
\* Array.isArray(middleware) ? middleware : [middleware].
toMiddlewares(middleware) ==
    IF ~Truthy(middleware) THEN << >>
    ELSE IF middleware.t = "array" THEN middleware.v
    ELSE << middleware >>

\* Mutant of createRouter: the constructor is given the options whole.
createRouterAllOptions(opts) ==
    LET given == IF opts.t = "object" THEN opts ELSE EmptyObj
        basePath == Get(given, "basePath")
        middleware == Get(given, "middleware")
        oapi == OpenAPIHono(given)
        middlewares == toMiddlewares(middleware)
        target == IF Truthy(basePath) THEN 2 ELSE 1
        uses == [i \in 1..Len(middlewares) |-> BuilderCall("use", target, middlewares[i])]
    IN  IF Truthy(basePath)
        THEN [hono |-> << oapi, useAll(basePathOf(oapi, basePath.v), middlewares) >>,
              instance |-> 2,
              calls |-> << BuilderCall("new", 0, given),
                           BuilderCall("basePath", 1, basePath) >> \o uses]
        ELSE [hono |-> << useAll(oapi, middlewares) >>,
              instance |-> 1,
              calls |-> << BuilderCall("new", 0, given) >> \o uses]

\* createRouter(options): the instances it builds, oapi first, which of
\* them is the instance it returns as the router, and the calls it made on
\* the builder, in order.
createRouter(opts) ==
    LET given == IF opts.t = "object" THEN opts ELSE EmptyObj
        basePath == Get(given, "basePath")
        middleware == Get(given, "middleware")
        honoOptions == Rest(given, {"basePath", "middleware"})
        oapi == OpenAPIHono(honoOptions)
        middlewares == toMiddlewares(middleware)
        target == IF Truthy(basePath) THEN 2 ELSE 1
        uses == [i \in 1..Len(middlewares) |-> BuilderCall("use", target, middlewares[i])]
    IN  IF Truthy(basePath)
        THEN [hono |-> << oapi, useAll(basePathOf(oapi, basePath.v), middlewares) >>,
              instance |-> 2,
              calls |-> << BuilderCall("new", 0, honoOptions),
                           BuilderCall("basePath", 1, basePath) >> \o uses]
        ELSE [hono |-> << useAll(oapi, middlewares) >>,
              instance |-> 1,
              calls |-> << BuilderCall("new", 0, honoOptions) >> \o uses]

\* Mutant of routerMap: the route is registered on oapi, the instance built
\* first, not on the instance the router is.
routerMapOnOapi(hono, instance, routeConfig, handler) ==
    [hono EXCEPT ![1] = openapi(@, routeConfig, Wrapper(handler))]

\* Mutant of routerMap: the config is registered without its request, so
\* without the schemas to validate against.
routerMapWithoutRequest(hono, instance, routeConfig, handler) ==
    [hono EXCEPT ![instance] = openapi(@, Rest(routeConfig, {"request"}), Wrapper(handler))]

\* router.map(config, handler): instance.openapi(config, wrapper).
routerMap(hono, instance, routeConfig, handler) ==
    [hono EXCEPT ![instance] = openapi(@, routeConfig, Wrapper(handler))]

-----------------------------------------------------------------------------
(* State: one route (verb and pattern), one config, and what the           *)
(* conversions and createSpec returned for them.                           *)

VARIABLES
    pattern,        \* route.pattern.source, the route pattern
    method,         \* route.method, a request method or the wildcard
    config,         \* the config handed to createSpec
    path,           \* what toOpenApiPath(pattern) returned
    pathAgain,      \* what toOpenApiPath returned for its own output
    typePath,       \* what ToOpenApiPath<pattern> evaluates to
    openApiMethod,  \* what toOpenApiMethod(method) returned
    spec,           \* what createSpec(route, config) returned
    options,        \* the options createRouter was called with
    hono,           \* the OpenAPIHono instances built so far, oapi first
    instance,       \* which of them the router is, 0 before createRouter
    mapCalls,       \* the router.map calls made so far, in order
    doc,            \* the document getOpenAPIDocument returned last
    builderCalls,   \* the calls createRouter made on the builder, in order
    jsonArgs,       \* the arguments json was called with
    response,       \* the Response json returned
    parsed,         \* what response.json() resolved to
    phase,          \* where the server is with the request: idle, validating, handling
    received,       \* how many requests have arrived
    request,        \* the request being served, or served last
    context,        \* the server's context for the request, once validated
    handlerCalls,   \* the calls made to the handler given to router.map, in order
    reply,          \* the response to the request
    settled,        \* what the wrapper's promise settled to for the request
    paramName,      \* what ExtractParamName<pattern> evaluates to
    afterName       \* what SkipParamName<pattern> evaluates to

routeVars == << pattern, method, config, path, pathAgain, typePath, openApiMethod, spec >>
routerVars == << options, hono, instance, mapCalls, doc, builderCalls >>
jsonVars == << jsonArgs, response, parsed >>
serveVars == << phase, received, request, context, handlerCalls, reply, settled >>
nameVars == << paramName, afterName >>
vars == << routeVars, routerVars, jsonVars, serveVars, nameVars >>

\* The fields a request declaration may carry, each with its own schema.
RequestFields == {"params", "searchParams", "body", "headers", "cookies"}

Requests == {Obj([k \in K |-> Schema(k)]) : K \in SUBSET RequestFields}

\* Configs of the declared shape: responses, and request when given.
DeclaredConfigs ==
    {Obj("responses" :> Schema("responses"))}
      \cup {Obj("responses" :> Schema("responses") @@ "request" :> r) : r \in Requests}

\* Fields a config object can carry at run time beyond the declared shape.
OwnMethodPath ==
    { << >>,
      "method" :> Str(<< "p", "o", "s", "t" >>),
      "path" :> Str(<< "/", "x" >>),
      "method" :> Str(<< "p", "o", "s", "t" >>) @@ "path" :> Str(<< "/", "x" >>) }

Configs == {Obj(c.f @@ extra) : c \in DeclaredConfigs, extra \in OwnMethodPath}

\* Longest tail of a route pattern after its leading '/'.
MaxRouteLen == 2

RECURSIVE TailsUpTo(_)
TailsUpTo(n) ==
    IF n = 0 THEN {<< >>}
    ELSE LET shorter == TailsUpTo(n - 1)
         IN  shorter \cup {Append(s, c) : s \in {x \in shorter : Len(x) = n - 1},
                                           c \in {"a", ":", "?"}}

\* The patterns of the routes handed to createSpec.
RoutePatterns == {<< "/" >> \o s : s \in TailsUpTo(MaxRouteLen)}

route == [method |-> method, pattern |-> pattern]

NoResults ==
    /\ path = None
    /\ pathAgain = None
    /\ typePath = None
    /\ openApiMethod = None
    /\ spec = None

NoRouter ==
    /\ options = None
    /\ hono = << >>
    /\ instance = 0
    /\ mapCalls = << >>
    /\ doc = None
    /\ builderCalls = << >>

NoJson ==
    /\ jsonArgs = << >>
    /\ response = None
    /\ parsed = None

NoServe ==
    /\ phase = "idle"
    /\ received = 0
    /\ request = None
    /\ context = None
    /\ handlerCalls = << >>
    /\ reply = None
    /\ settled = None

NoNames ==
    /\ paramName = None
    /\ afterName = None

\* The path conversions alone, over every pattern up to MaxLen.
Init ==
    /\ pattern \in Patterns
    /\ method = << "G", "E", "T" >>
    /\ config = Obj("responses" :> Schema("responses"))
    /\ NoResults
    /\ NoRouter
    /\ NoJson
    /\ NoServe
    /\ NoNames

\* A caller evaluates toOpenApiPath(pattern).
CallToOpenApiPath ==
    /\ path = None
    /\ path' = toOpenApiPath(pattern)
    /\ UNCHANGED << nameVars, serveVars, pattern, method, config, pathAgain, typePath, openApiMethod, spec, routerVars, jsonVars >>

\* A caller feeds the returned path to toOpenApiPath again.
CallToOpenApiPathAgain ==
    /\ path.t = "string"
    /\ pathAgain = None
    /\ pathAgain' = toOpenApiPath(path.v)
    /\ UNCHANGED << nameVars, serveVars, pattern, method, config, path, typePath, openApiMethod, spec, routerVars, jsonVars >>

\* The compiler evaluates ToOpenApiPath<pattern>.
EvalToOpenApiPathType ==
    /\ typePath = None
    /\ typePath' = Str(ToOpenApiPath(pattern))
    /\ UNCHANGED << nameVars, serveVars, pattern, method, config, path, pathAgain, openApiMethod, spec, routerVars, jsonVars >>

\* A caller evaluates toOpenApiMethod(method).
CallToOpenApiMethod ==
    /\ openApiMethod = None
    /\ openApiMethod' = toOpenApiMethod(method)
    /\ UNCHANGED << nameVars, serveVars, pattern, method, config, path, pathAgain, typePath, spec, routerVars, jsonVars >>

\* A caller evaluates createSpec(route, config).
CallCreateSpec ==
    /\ spec = None
    /\ spec' = createSpec(route, config)
    /\ LET after == createSpecArguments(route, config)
       IN  /\ config' = after.config
           /\ pattern' = after.route.pattern
           /\ method' = after.route.method
    /\ UNCHANGED << nameVars, serveVars, path, pathAgain, typePath, openApiMethod, routerVars, jsonVars >>

Next ==
    \/ CallToOpenApiPath
    \/ CallToOpenApiPathAgain
    \/ EvalToOpenApiPathType

Spec == Init /\ [][Next]_vars

\* Routes and configs: every verb, every route pattern, every config.
InitRoute ==
    /\ pattern \in RoutePatterns
    /\ method \in RequestMethod \cup {ANY}
    /\ config \in Configs
    /\ NoResults
    /\ NoRouter
    /\ NoJson
    /\ NoServe
    /\ NoNames

NextRoute ==
    \/ CallToOpenApiPath
    \/ CallToOpenApiMethod
    \/ CallCreateSpec

SpecRoute == InitRoute /\ [][NextRoute]_vars

\* The two halves of the type-level name split, over every string up to
\* MaxLen.
InitNames ==
    /\ pattern \in Patterns
    /\ method = << "G", "E", "T" >>
    /\ config = Obj("responses" :> Schema("responses"))
    /\ NoResults
    /\ NoRouter
    /\ NoJson
    /\ NoServe
    /\ NoNames

\* The compiler evaluates ExtractParamName<pattern>.
EvalExtractParamName ==
    /\ paramName = None
    /\ paramName' = Str(ExtractParamName(pattern, << >>))
    /\ UNCHANGED << serveVars, routeVars, routerVars, jsonVars, afterName >>

\* The compiler evaluates SkipParamName<pattern>.
EvalSkipParamName ==
    /\ afterName = None
    /\ afterName' = Str(SkipParamName(pattern))
    /\ UNCHANGED << serveVars, routeVars, routerVars, jsonVars, paramName >>

NextNames ==
    \/ EvalExtractParamName
    \/ EvalSkipParamName

SpecNames == InitNames /\ [][NextNames]_vars

-----------------------------------------------------------------------------
(* A router: createRouter once, then router.map calls and documents.       *)

\* Most router.map calls a run makes.
MaxMaps == 2

Mw1 == Fn("mw1")
Mw2 == Fn("mw2")

\* RouterOptions: basePath, middleware (one handler or an array) and the
\* builder's own options, each optional; or no options at all.
RouterOptions ==
    {Undefined} \cup
    {Obj(b @@ m @@ h) :
        b \in {<< >>, "basePath" :> Str(<< >>), "basePath" :> Str(<< "/", "b" >>)},
        m \in {<< >>, "middleware" :> Mw1, "middleware" :> Arr(<< >>),
               "middleware" :> Arr(<< Mw1, Mw2 >>)},
        h \in {<< >>, "strict" :> Bool(FALSE)}}

\* The routes a run maps: a pattern with a query suffix, one with a
\* parameter, and the root.
MapPatterns ==
    { << "/", "a", "?", "b" >>, << "/", "a", "/", ":", "b" >>, << "/" >> }

\* Their configs: plain, hidden, and with a request declaration.
MapConfigs ==
    { Obj("responses" :> Schema("responses")),
      Obj("responses" :> Schema("responses") @@ "hide" :> Bool(TRUE)),
      Obj("responses" :> Schema("responses")
          @@ "request" :> Obj("searchParams" :> Schema("searchParams"))) }

\* What a router.map call is given: a spec made by createSpec from a route
\* (from is its pattern), or a config written by hand (from is none).
MapInputs ==
    {[config |-> createSpec([method |-> << "G", "E", "T" >>, pattern |-> p], c),
      from |-> Str(p)] : p \in MapPatterns, c \in MapConfigs}
      \cup {[config |-> Obj("method" :> Str(<< "p", "o", "s", "t" >>)
                            @@ "path" :> Str(<< "/", "c" >>)
                            @@ "responses" :> Schema("responses")),
             from |-> None]}

InitRouter ==
    /\ pattern = << "/" >>
    /\ method = << "G", "E", "T" >>
    /\ config = Obj("responses" :> Schema("responses"))
    /\ NoResults
    /\ NoRouter
    /\ NoJson
    /\ NoServe
    /\ NoNames

\* A caller evaluates createRouter(options).
CallCreateRouter ==
    /\ instance = 0
    /\ \E opts \in RouterOptions :
        LET built == createRouter(opts)
        IN  /\ options' = opts
            /\ hono' = built.hono
            /\ instance' = built.instance
            /\ builderCalls' = built.calls
    /\ UNCHANGED << nameVars, serveVars, routeVars, jsonVars, mapCalls, doc >>

\* A caller evaluates router.map(config, handler).
CallMap ==
    /\ instance # 0
    /\ Len(mapCalls) < MaxMaps
    /\ \E call \in MapInputs :
        /\ hono' = routerMap(hono, instance, call.config, Fn("handler"))
        /\ mapCalls' = Append(mapCalls, call)
    /\ UNCHANGED << nameVars, serveVars, routeVars, jsonVars, options, instance, doc, builderCalls >>

\* A caller evaluates router.getOpenAPIDocument(...).
CallGetOpenAPIDocument ==
    /\ instance # 0
    /\ doc' = getOpenAPIDocument(hono[instance])
    /\ UNCHANGED << nameVars, serveVars, routeVars, jsonVars, options, hono, instance, mapCalls, builderCalls >>

NextRouter ==
    \/ CallCreateRouter
    \/ CallMap
    \/ CallGetOpenAPIDocument

SpecRouter == InitRouter /\ [][NextRouter]_vars

-----------------------------------------------------------------------------
(* JSON text, as the platform's JSON.stringify writes it and JSON.parse    *)
(* reads it, over null, booleans, naturals, strings, arrays and objects.   *)

Null == [t |-> "null", v |-> 0]
Num(n) == [t |-> "number", v |-> n]
\* An object as its entries << key, value >>, in insertion order.
Entries(e) == [t |-> "entries", v |-> e]
SyntaxError == [t |-> "SyntaxError"]

DigitChars == << "0", "1", "2", "3", "4", "5", "6", "7", "8", "9" >>

RECURSIVE DigitsOf(_)
DigitsOf(n) ==
    IF n < 10 THEN << DigitChars[n + 1] >>
    ELSE DigitsOf(n \div 10) \o << DigitChars[(n % 10) + 1] >>

\* Mutant of Quote: the characters are written between the quotes as they
\* are.
QuoteUnescaped(s) == << "\"" >> \o s \o << "\"" >>

RECURSIVE Escape(_)
Escape(s) ==
    IF s = << >> THEN << >>
    ELSE (IF Head(s) \in {"\"", "\\"} THEN << "\\", Head(s) >> ELSE << Head(s) >>)
             \o Escape(Tail(s))

\* A string literal: quotes around the characters, '"' and '\' escaped.
Quote(s) == << "\"" >> \o Escape(s) \o << "\"" >>

RECURSIVE stringify(_), JoinValues(_), JoinEntries(_)
JoinValues(items) ==
    IF items = << >> THEN << >>
    ELSE stringify(Head(items))
             \o (IF Len(items) > 1 THEN << "," >> ELSE << >>)
             \o JoinValues(Tail(items))

JoinEntries(e) ==
    IF e = << >> THEN << >>
    ELSE Quote(Head(e)[1]) \o << ":" >> \o stringify(Head(e)[2])
             \o (IF Len(e) > 1 THEN << "," >> ELSE << >>)
             \o JoinEntries(Tail(e))

\* JSON.stringify(value)
stringify(value) ==
    CASE value.t = "null" -> << "n", "u", "l", "l" >>
      [] value.t = "boolean" ->
             IF value.v THEN << "t", "r", "u", "e" >> ELSE << "f", "a", "l", "s", "e" >>
      [] value.t = "number" -> DigitsOf(value.v)
      [] value.t = "string" -> Quote(value.v)
      [] value.t = "array" -> << "[" >> \o JoinValues(value.v) \o << "]" >>
      [] value.t = "entries" -> << "{" >> \o JoinEntries(value.v) \o << "}" >>

ParseFail == [ok |-> FALSE, v |-> SyntaxError, next |-> 0]
Parsed(v, next) == [ok |-> TRUE, v |-> v, next |-> next]

At(s, i, c) == i <= Len(s) /\ s[i] = c

Word(s, i, w) == i + Len(w) - 1 <= Len(s) /\ SubSeq(s, i, i + Len(w) - 1) = w

IsDigit(c) == \E d \in 1..10 : DigitChars[d] = c

DigitValue(c) == (CHOOSE d \in 1..10 : DigitChars[d] = c) - 1

\* The characters of a string literal, from just after its opening quote.
RECURSIVE ParseChars(_, _, _)
ParseChars(s, j, acc) ==
    IF j > Len(s) THEN ParseFail
    ELSE IF s[j] = "\"" THEN Parsed(acc, j + 1)
    ELSE IF s[j] = "\\"
         THEN IF j + 1 > Len(s) THEN ParseFail
              ELSE ParseChars(s, j + 2, Append(acc, s[j + 1]))
    ELSE ParseChars(s, j + 1, Append(acc, s[j]))

RECURSIVE ParseDigits(_, _, _)
ParseDigits(s, j, acc) ==
    IF j <= Len(s) /\ IsDigit(s[j])
    THEN ParseDigits(s, j + 1, 10 * acc + DigitValue(s[j]))
    ELSE Parsed(Num(acc), j)

RECURSIVE ParseValue(_, _), ParseItems(_, _, _), ParseEntries(_, _, _)
ParseValue(s, i) ==
    IF i > Len(s) THEN ParseFail
    ELSE IF Word(s, i, << "n", "u", "l", "l" >>) THEN Parsed(Null, i + 4)
    ELSE IF Word(s, i, << "t", "r", "u", "e" >>) THEN Parsed(Bool(TRUE), i + 4)
    ELSE IF Word(s, i, << "f", "a", "l", "s", "e" >>) THEN Parsed(Bool(FALSE), i + 5)
    ELSE IF IsDigit(s[i]) THEN ParseDigits(s, i, 0)
    ELSE IF s[i] = "\""
         THEN LET r == ParseChars(s, i + 1, << >>)
              IN  IF r.ok THEN Parsed(Str(r.v), r.next) ELSE ParseFail
    ELSE IF s[i] = "["
         THEN IF At(s, i + 1, "]") THEN Parsed(Arr(<< >>), i + 2)
              ELSE ParseItems(s, i + 1, << >>)
    ELSE IF s[i] = "{"
         THEN IF At(s, i + 1, "}") THEN Parsed(Entries(<< >>), i + 2)
              ELSE ParseEntries(s, i + 1, << >>)
    ELSE ParseFail

ParseItems(s, i, acc) ==
    LET r == ParseValue(s, i)
    IN  IF ~r.ok THEN ParseFail
        ELSE IF At(s, r.next, ",") THEN ParseItems(s, r.next + 1, Append(acc, r.v))
        ELSE IF At(s, r.next, "]") THEN Parsed(Arr(Append(acc, r.v)), r.next + 1)
        ELSE ParseFail

ParseEntries(s, i, acc) ==
    IF ~At(s, i, "\"") THEN ParseFail
    ELSE LET k == ParseChars(s, i + 1, << >>)
         IN  IF ~k.ok \/ ~At(s, k.next, ":") THEN ParseFail
             ELSE LET r == ParseValue(s, k.next + 1)
                      e == Append(acc, << k.v, r.v >>)
                  IN  IF ~r.ok THEN ParseFail
                      ELSE IF At(s, r.next, ",") THEN ParseEntries(s, r.next + 1, e)
                      ELSE IF At(s, r.next, "}") THEN Parsed(Entries(e), r.next + 1)
                      ELSE ParseFail

\* JSON.parse(text)
parse(text) ==
    LET r == ParseValue(text, 1)
    IN  IF r.ok /\ r.next = Len(text) + 1 THEN r.v ELSE SyntaxError

-----------------------------------------------------------------------------
(* Response.json of the platform, and the json helper.                     *)

\* A header list given by the caller: << name, value >> pairs.
HeadersInit(pairs) == [t |-> "headers", v |-> pairs]

ContentType == << "c", "o", "n", "t", "e", "n", "t", "-", "t", "y", "p", "e" >>

\* new Headers(init): the pairs with their names in lower case.
Headers(init) ==
    IF init.t = "headers"
    THEN [i \in 1..Len(init.v) |-> << toLowerCase(init.v[i][1]), init.v[i][2] >>]
    ELSE << >>

\* headers.has(name)
HeadersHas(headers, name) ==
    \E i \in 1..Len(headers) : headers[i][1] = toLowerCase(name)

\* headers.get(name): the values under the name, joined, or null.
HeadersGet(headers, name) ==
    LET at == {i \in 1..Len(headers) : headers[i][1] = toLowerCase(name)}
    IN  IF at = {} THEN Null
        ELSE Str([i \in 1..Cardinality(at) |->
                     headers[CHOOSE j \in at : Cardinality({k \in at : k < j}) = i - 1][2]])

\* Response.json(data, init): init is a ResponseInit, a bare status code, or
\* missing; the body is the JSON text of data, and the content type is set
\* unless init's headers set one.
ResponseJson(data, init) ==
    LET status == IF init.t = "number" THEN init.v
                  ELSE IF Has(init, "status") THEN Get(init, "status").v
                  ELSE 200
        given == Headers(Get(init, "headers"))
        headers == IF HeadersHas(given, ContentType) THEN given
                   ELSE Append(given, << ContentType, "application/json" >>)
    IN  [t |-> "response", status |-> status, headers |-> headers,
         body |-> stringify(data)]

\* The i-th argument of a call, undefined when the call has fewer.
Arg(args, i) == IF i <= Len(args) THEN args[i] ELSE Undefined

\* Mutant of createJsonResponse: the init is not handed on.
createJsonResponseNoInit(args) == ResponseJson(Arg(args, 1), Undefined)

\* createJsonResponse(value, init), exported as json: Response.json of its
\* first two arguments.
createJsonResponse(args) == ResponseJson(Arg(args, 1), Arg(args, 2))

StatusCodes == {201, 404}

\* The values handed to json.
JsonValues ==
    LET atoms == { Null, Bool(TRUE), Num(0), Num(12), Str(<< >>), Str(<< "a" >>),
                   Str(<< "\"" >>), Str(<< "\\", "n" >>), Str(<< "1" >>) }
    IN  atoms
          \cup { Arr(<< >>), Arr(<< Num(1), Str(<< "a" >>) >>), Arr(<< Arr(<< >>) >>) }
          \cup { Entries(<< >>),
                 Entries(<< << << "i", "d" >>, Str(<< "1" >>) >>,
                            << << "n" >>, Arr(<< Null >>) >> >>),
                 Entries(<< << << "\"" >>, Entries(<< << << "a" >>, Bool(FALSE) >> >>) >> >>) }

\* Header lists a caller gives: one custom header, one with two, and one
\* that sets the content type itself.
HeaderLists ==
    { HeadersInit(<< << << "X", "-", "A" >>, "v" >> >>),
      HeadersInit(<< << << "X", "-", "A" >>, "v" >>, << << "x", "-", "b" >>, "w" >> >>),
      HeadersInit(<< << << "C", "o", "n", "t", "e", "n", "t", "-", "T", "y", "p", "e" >>,
                        "text/plain" >> >>) }

\* The second argument of json: a status code or a ResponseInit.
ResponseInits ==
    {Num(n) : n \in StatusCodes}
      \cup {Obj(st @@ h) : st \in {<< >>} \cup {"status" :> Num(n) : n \in StatusCodes},
                           h \in {<< >>} \cup {"headers" :> l : l \in HeaderLists}}

\* Calls of json: json(value), json(value, init), json(value, status, headers).
JsonCalls ==
    {<< v >> : v \in JsonValues}
      \cup {<< v, i >> : v \in JsonValues, i \in ResponseInits}
      \cup {<< v, Num(n), h >> : v \in JsonValues, n \in StatusCodes, h \in HeaderLists}

InitJson ==
    /\ pattern = << "/" >>
    /\ method = << "G", "E", "T" >>
    /\ config = Obj("responses" :> Schema("responses"))
    /\ NoResults
    /\ NoRouter
    /\ NoJson
    /\ NoServe
    /\ NoNames

\* A caller evaluates json(...).
CallJson ==
    /\ response = None
    /\ \E args \in JsonCalls :
        /\ jsonArgs' = args
        /\ response' = createJsonResponse(args)
    /\ UNCHANGED << nameVars, serveVars, routeVars, routerVars, parsed >>

\* The caller reads the body: await response.json().
CallResponseJson ==
    /\ response # None
    /\ parsed = None
    /\ parsed' = parse(response.body)
    /\ UNCHANGED << nameVars, serveVars, routeVars, routerVars, jsonArgs, response >>

NextJson ==
    \/ CallJson
    \/ CallResponseJson

SpecJson == InitJson /\ [][NextJson]_vars

-----------------------------------------------------------------------------
(* Serving: the server library validates a request against the mapped      *)
(* config, then runs the handler router.map registered for it.             *)

\* Most requests a run serves.
MaxRequests == 2

\* The validators openapi registers for a route, in the order they run: the
\* target each validates and the field of request that declares its schema.
ValidationTargets ==
    << [target |-> "query", field |-> "query"],
       [target |-> "param", field |-> "params"],
       [target |-> "header", field |-> "headers"],
       [target |-> "cookie", field |-> "cookies"],
       [target |-> "json", field |-> "body"] >>

\* route.request?.[field] is set.
Declares(routeConfig, field) == Truthy(Get(Get(routeConfig, "request"), field))

Validators(routeConfig) ==
    SelectSeq(ValidationTargets, LAMBDA v : Declares(routeConfig, v.field))

\* What a validator stores for a target it accepted: the schema's output
\* for that part of the request.
ValidatedData(target, schema, req) ==
    [t |-> "validated", target |-> target, by |-> schema, of |-> req.id]

\* The response of a validator that rejected its target.
ValidationFailure(target) ==
    [t |-> "response", status |-> 400, by |-> "validator", target |-> target]

\* The validators of a route run on a request, in order: the first one that
\* rejects answers for the route; if none does, each has stored its data.
RunValidators(routeConfig, req) ==
    LET vs == Validators(routeConfig)
        rejected == {i \in 1..Len(vs) : vs[i].target \notin req.ok}
    IN  IF rejected # {}
        THEN [ok |-> FALSE,
              response |-> ValidationFailure(
                  vs[CHOOSE i \in rejected : \A j \in rejected : i <= j].target)]
        ELSE [ok |-> TRUE,
              validated |-> [i \in 1..Len(vs) |->
                  ValidatedData(vs[i].target,
                                Get(Get(routeConfig, "request"), vs[i].field), req)]]

\* The server's context c for a request: c.req with the method, the url,
\* the raw Request and the data the validators stored.
Context(req, validated) ==
    [t |-> "context",
     req |-> [method |-> req.method, url |-> req.url, raw |-> req,
              validated |-> validated]]

\* c.req.valid(target): the data stored for the target, undefined when no
\* validator stored any.
valid(c, target) ==
    LET at == {i \in 1..Len(c.req.validated) : c.req.validated[i].target = target}
    IN  IF at = {} THEN Undefined ELSE c.req.validated[CHOOSE i \in at : TRUE]

\* new URL(url)
URL(url) == [t |-> "URL", href |-> url]

\* new SuperHeaders(headers)
SuperHeaders(headers) == [t |-> "SuperHeaders", of |-> headers]

\* Mutant of RouteContext: searchParams and body are read from each other's
\* target.
RouteContextSwapped(c) ==
    [params |-> valid(c, "param"),
     searchParams |-> valid(c, "json"),
     body |-> valid(c, "query"),
     method |-> c.req.method,
     url |-> URL(c.req.url),
     headers |-> SuperHeaders(c.req.raw.headers),
     request |-> c.req.raw,
     raw |-> c]

\* The object the wrapper builds from c and hands to the handler.
RouteContext(c) ==
    [params |-> valid(c, "param"),
     searchParams |-> valid(c, "query"),
     body |-> valid(c, "json"),
     method |-> c.req.method,
     url |-> URL(c.req.url),
     headers |-> SuperHeaders(c.req.raw.headers),
     request |-> c.req.raw,
     raw |-> c]

\* Promises, settled.
Fulfilled(value) == [t |-> "promise", state |-> "fulfilled", value |-> value]
Rejected(reason) == [t |-> "promise", state |-> "rejected", value |-> reason]

\* How a call ends: it returns a value or throws one.
Returns(value) == [kind |-> "return", value |-> value]
Throws(error) == [kind |-> "throw", value |-> error]

\* `await x` of a call's result: a promise gives what it settled to, a
\* throw or a rejection is thrown on, any other value is itself.
Await(result) ==
    IF result.kind = "throw" THEN result
    ELSE IF result.value.t = "promise"
         THEN IF result.value.state = "fulfilled"
              THEN Returns(result.value.value)
              ELSE Throws(result.value.value)
    ELSE result

\* The promise an async function returns for how its body ended.
Async(result) ==
    IF result.kind = "throw" THEN Rejected(result.value) ELSE Fulfilled(result.value)

\* Mutant of RunWrapper: an error of the handler is caught and answered
\* with a response of the wrapper's own.
RunWrapperCatching(wrapper, c, behaviour) ==
    LET awaited == Await(behaviour)
    IN  [call |-> [handler |-> wrapper.handler, args |-> << RouteContext(c) >>,
                   result |-> behaviour],
         promise |-> IF awaited.kind = "throw"
                     THEN Fulfilled([t |-> "response", status |-> 500,
                                     by |-> "wrapper", target |-> "none"])
                     ELSE Async(awaited)]

\* The wrapper of router.map, run by the server with c: one call of the
\* caller's handler, with the object built from c as its only argument;
\* behaviour is how that call ends. `return await handler(...)` in an async
\* function: the promise the wrapper returns settles as the awaited result.
RunWrapper(wrapper, c, behaviour) ==
    [call |-> [handler |-> wrapper.handler, args |-> << RouteContext(c) >>,
               result |-> behaviour],
     promise |-> Async(Await(behaviour))]

\* The server's answer when a handler's promise is rejected: its error
\* handler's response.
ErrorResponse(error) ==
    [t |-> "response", status |-> 500, by |-> "errorHandler", target |-> "none"]

\* What the caller's handler returns.
HandlerResponse(handler) ==
    [t |-> "response", status |-> 200, by |-> handler.id, target |-> "none"]

Handler == Fn("handler")

HandlerError == [t |-> "Error", message |-> "boom"]

\* How a call of the caller's handler can end: with a response, with a
\* promise of one, with an error thrown, or with a promise rejected.
HandlerBehaviours(handler) ==
    { Returns(HandlerResponse(handler)),
      Returns(Fulfilled([HandlerResponse(handler) EXCEPT !.status = 201])),
      Throws(HandlerError),
      Returns(Rejected(HandlerError)) }

\* The options of the routers that serve.
ServeOptions ==
    { Undefined,
      Obj("basePath" :> Str(<< "/", "b" >>)),
      Obj("middleware" :> Mw1) }

\* What is mapped on them: specs made by createSpec for a route with a
\* parameter and a query suffix, with every choice of params, searchParams
\* and body declared, and two configs written by hand, one declaring query
\* and one declaring searchParams.
ServeInputs ==
    {[config |-> createSpec([method |-> << "P", "O", "S", "T" >>,
                             pattern |-> << "/", ":", "a", "?", "b" >>], c),
      from |-> Str(<< "/", ":", "a", "?", "b" >>)] :
        c \in { Obj("responses" :> Schema("responses")) }
                \cup { Obj("responses" :> Schema("responses")
                           @@ "request" :> Obj([k \in K |-> Schema(k)])) :
                       K \in SUBSET {"params", "searchParams", "body"} }}
      \cup {[config |-> Obj("method" :> Str(<< "p", "o", "s", "t" >>)
                            @@ "path" :> Str(<< "/", "c" >>)
                            @@ "responses" :> Schema("responses")
                            @@ "request" :> Obj(k :> Schema(k))),
             from |-> None] : k \in {"query", "searchParams"}}

\* The parts of a request a validator can reject.
RequestTargets == {"param", "query", "json"}

\* Requests, numbered as they arrive, each with the set of its parts that are valid
\* against the schemas of the route.
ServeRequests ==
    {[t |-> "request", id |-> n, method |-> << "P", "O", "S", "T" >>,
      url |-> Str(<< "/", DigitChars[n + 1] >>), headers |-> HeadersInit(<< >>),
      ok |-> ok] : n \in 1..MaxRequests, ok \in SUBSET RequestTargets}

\* A router made by createRouter, with one route mapped by router.map.
InitServe ==
    /\ pattern = << "/" >>
    /\ method = << "G", "E", "T" >>
    /\ config = Obj("responses" :> Schema("responses"))
    /\ NoResults
    /\ NoJson
    /\ NoServe
    /\ NoNames
    /\ doc = None
    /\ \E opts \in ServeOptions, call \in ServeInputs :
        LET built == createRouter(opts)
        IN  /\ options = opts
            /\ hono = routerMap(built.hono, built.instance, call.config, Handler)
            /\ instance = built.instance
            /\ builderCalls = built.calls
            /\ mapCalls = << call >>

\* The route the router serves.
Served == hono[instance].routes[1]

\* A request for the mapped route arrives.
Receive ==
    /\ phase = "idle"
    /\ received < MaxRequests
    /\ hono[instance].routes # << >>
    /\ \E req \in ServeRequests :
        /\ req.id = received + 1
        /\ toLowerCase(req.method) = Get(Served.config, "method").v
        /\ request' = req
    /\ received' = received + 1
    /\ phase' = "validating"
    /\ context' = None
    /\ reply' = None
    /\ settled' = None
    /\ UNCHANGED << nameVars, routeVars, routerVars, jsonVars, handlerCalls >>

\* The server library runs the route's validators on the request.
Validate ==
    /\ phase = "validating"
    /\ LET outcome == RunValidators(Served.config, request)
       IN  IF outcome.ok
           THEN /\ context' = Context(request, outcome.validated)
                /\ phase' = "handling"
                /\ reply' = reply
           ELSE /\ reply' = outcome.response
                /\ phase' = "idle"
                /\ context' = context
    /\ UNCHANGED << nameVars, routeVars, routerVars, jsonVars, received, request, handlerCalls, settled >>

\* The server library runs the handler registered for the route, the
\* wrapper of router.map, and answers with what its promise is fulfilled
\* with, or with its error handler's response when it is rejected.
Handle ==
    /\ phase = "handling"
    /\ \E behaviour \in HandlerBehaviours(Served.handler.handler) :
        LET run == RunWrapper(Served.handler, context, behaviour)
        IN  /\ handlerCalls' = Append(handlerCalls, run.call)
            /\ settled' = run.promise
            /\ reply' = IF run.promise.state = "fulfilled"
                        THEN run.promise.value
                        ELSE ErrorResponse(run.promise.value)
    /\ phase' = "idle"
    /\ UNCHANGED << nameVars, routeVars, routerVars, jsonVars, received, request, context >>

NextServe ==
    \/ Receive
    \/ Validate
    \/ Handle

SpecServe == InitServe /\ [][NextServe]_vars

-----------------------------------------------------------------------------
(* Vocabulary of the properties.                                           *)

\* The characters that end a parameter token according to the data model:
\* path separator, dot, hyphen, parentheses, question mark, colon.
TokenDelimiter == {"/", ".", "-", "(", ")", "?", ":"}

\* The part of s before its first '?', all of s when it has none.
BeforeQuery(s) ==
    IF Contains(s, "?") THEN SubSeq(s, 1, IndexOf(s, "?") - 1) ELSE s

\* s has a ':name' token at i with a name of n characters: a ':' at i, n >= 1
\* name characters after it, then a delimiter or the end of the string.
TokenAt(s, i, n) ==
    /\ i \in 1..Len(s)
    /\ n >= 1
    /\ i + n <= Len(s)
    /\ s[i] = ":"
    /\ \A k \in 1..n : s[i + k] \in NameChar
    /\ i + n < Len(s) => s[i + n + 1] \in TokenDelimiter

HasToken(s) == \E i \in 1..Len(s), n \in 1..Len(s) : TokenAt(s, i, n)

Called == path.t # "none"

-----------------------------------------------------------------------------
(* Properties of the path conversions.                                     *)

\* C1: for every pattern the type-level ToOpenApiPath<P> is exactly the
\* string the runtime toOpenApiPath(P) returns.
TypeLevelEqualsRuntime ==
    (Called /\ typePath.t # "none") => typePath = path

\* C2, as stated: every ':name' token of the pattern is replaced by '{name}'
\* and all the text before and after it is kept, its own tokens replaced.
EveryTokenReplacedTextKept ==
    Called =>
        \A i \in 1..Len(pattern), n \in 1..Len(pattern) :
            TokenAt(pattern, i, n) =>
                path = Str(replace(SubSeq(pattern, 1, i - 1))
                           \o << "{" >> \o SubSeq(pattern, i + 1, i + n) \o << "}" >>
                           \o replace(SubSeq(pattern, i + n + 1, Len(pattern))))

\* C2, amended: every ':name' token of the part of the pattern before the
\* first '?' is replaced by '{name}', and the text of that part before and
\* after the token is kept in order, its own tokens replaced.
TokenBeforeQueryReplaced ==
    Called =>
        LET p == BeforeQuery(pattern)
        IN  \A i \in 1..Len(p), n \in 1..Len(p) :
                TokenAt(pattern, i, n) =>
                    path = Str(replace(SubSeq(p, 1, i - 1))
                               \o << "{" >> \o SubSeq(p, i + 1, i + n) \o << "}" >>
                               \o replace(SubSeq(p, i + n + 1, Len(p))))

\* '/:a/' has been converted to '/{a}/': token replaced, both separators kept.
TokenReplacedWitness ==
    /\ pattern = << "/", ":", "a", "/" >>
    /\ path = Str(<< "/", "{", "a", "}", "/" >>)

\* C3: for a pattern that contains '?', the result is the conversion of the
\* part before the first '?', and nothing from the '?' on survives.
QueryStripped ==
    (Called /\ Contains(pattern, "?")) =>
        /\ path = toOpenApiPath(BeforeQuery(pattern))
        /\ path.t = "string"
        /\ ~Contains(path.v, "?")

\* '/?:a' has been converted: the token after the '?' is gone with it.
QueryStrippedWitness ==
    /\ pattern = << "/", "?", ":", "a" >>
    /\ path = Str(<< "/" >>)

\* C4: a pattern with no ':' and no '?' is returned unchanged.
IdentityWithoutColonAndQuery ==
    (Called /\ ~Contains(pattern, ":") /\ ~Contains(pattern, "?")) =>
        path = Str(pattern)

\* '/ab/' has been converted to itself.
IdentityWitness ==
    /\ pattern = << "/", "a", "b", "/" >>
    /\ path = Str(pattern)

\* C5: for a pattern without '{' and '}', converting the output again gives
\* the output.
IdempotentWithoutBraces ==
    (pathAgain.t # "none" /\ ~Contains(pattern, "{") /\ ~Contains(pattern, "}")) =>
        pathAgain = path

\* ':a:b' has been converted to '{a}{b}' and the output converted again.
IdempotentWitness ==
    /\ pattern = << ":", "a", ":", "b" >>
    /\ path = Str(<< "{", "a", "}", "{", "b", "}" >>)
    /\ pathAgain.t # "none"

\* C6: toOpenApiPath returns a string for every input and never raises.
AlwaysReturnsString ==
    Called =>
        /\ path.t = "string"
        /\ \A k \in 1..Len(path.v) : path.v[k] \in Alphabet

\* The empty string, '?', ':' and a pattern ending in an open token have
\* each been converted.
TotalWitness ==
    /\ Called
    /\ pattern \in {<< >>, << "?" >>, << ":" >>, << "/", ":", "a" >>}

-----------------------------------------------------------------------------
(* Properties of the method conversion and of createSpec.                  *)

\* The verbs and their lowercase forms, written out.
LowercaseOf ==
    { << << "G", "E", "T" >>, << "g", "e", "t" >> >>,
      << << "H", "E", "A", "D" >>, << "h", "e", "a", "d" >> >>,
      << << "P", "O", "S", "T" >>, << "p", "o", "s", "t" >> >>,
      << << "P", "U", "T" >>, << "p", "u", "t" >> >>,
      << << "P", "A", "T", "C", "H" >>, << "p", "a", "t", "c", "h" >> >>,
      << << "D", "E", "L", "E", "T", "E" >>, << "d", "e", "l", "e", "t", "e" >> >>,
      << << "O", "P", "T", "I", "O", "N", "S" >>, << "o", "p", "t", "i", "o", "n", "s" >> >> }

\* C7: toOpenApiMethod gives each request method in lowercase and 'get' for
\* the wildcard, so the result is a lowercase request method, never 'any'.
MethodLowercased ==
    openApiMethod.t # "none" =>
        /\ openApiMethod.t = "string"
        /\ method # ANY => << method, openApiMethod.v >> \in LowercaseOf
        /\ method = ANY => openApiMethod.v = << "g", "e", "t" >>
        /\ \E pair \in LowercaseOf : pair[2] = openApiMethod.v

\* The wildcard has been converted to 'get'.
MethodWitness ==
    /\ method = ANY
    /\ openApiMethod = Str(<< "g", "e", "t" >>)

\* C8: for a config without 'method' and 'path' the spec's path is
\* toOpenApiPath(route.pattern.source) and its method toOpenApiMethod(route.method);
\* a wildcard route gives method 'get'.
SpecPathAndMethodFromRoute ==
    (spec.t # "none" /\ ~Has(config, "method") /\ ~Has(config, "path")) =>
        /\ Get(spec, "path") = toOpenApiPath(pattern)
        /\ Get(spec, "method") = toOpenApiMethod(method)
        /\ path.t # "none" => Get(spec, "path") = path
        /\ openApiMethod.t # "none" => Get(spec, "method") = openApiMethod
        /\ method = ANY => Get(spec, "method") = Str(<< "g", "e", "t" >>)

\* A wildcard route '/:a' with a declared config has given a spec with path
\* '/{a}' and method 'get'.
SpecWitness ==
    /\ method = ANY
    /\ pattern = << "/", ":", "a" >>
    /\ ~Has(config, "method") /\ ~Has(config, "path")
    /\ Has(config, "request")
    /\ spec.t = "object"
    /\ Get(spec, "path") = Str(<< "/", "{", "a", "}" >>)
    /\ Get(spec, "method") = Str(<< "g", "e", "t" >>)
    /\ path = Get(spec, "path")

\* C9: with a request in the config, the forwarded request has query equal to
\* request.searchParams (undefined when there is none) and params, headers,
\* cookies and body as given; with no request, none is forwarded.
RequestForwarded ==
    spec.t # "none" =>
        LET given == Get(config, "request")
            forwarded == Get(spec, "request")
        IN  IF given.t = "object"
            THEN /\ forwarded.t = "object"
                 /\ Get(forwarded, "query") = Get(given, "searchParams")
                 /\ \A k \in {"params", "headers", "cookies", "body"} :
                        Get(forwarded, k) = Get(given, k)
            ELSE /\ forwarded = Undefined
                 /\ Get(spec, "query") = Undefined

\* A request with searchParams, params and body has been forwarded with the
\* searchParams schema under query.
RequestWitness ==
    /\ Get(Get(config, "request"), "searchParams") = Schema("searchParams")
    /\ Get(Get(config, "request"), "params") = Schema("params")
    /\ Get(Get(config, "request"), "body") = Schema("body")
    /\ spec.t = "object"
    /\ Get(Get(spec, "request"), "query") = Schema("searchParams")
    /\ Get(Get(spec, "request"), "params") = Schema("params")

-----------------------------------------------------------------------------
(* Properties of the router.                                               *)

\* The document the router generates in the current state.
CurrentPaths == getOpenAPIDocument(hono[instance]).paths

Hidden(routeConfig) == Truthy(Get(routeConfig, "hide"))

\* The base path createRouter applied: options.basePath when it is a
\* non-empty string, otherwise none.
AppliedBase ==
    IF Truthy(Get(options, "basePath")) THEN Get(options, "basePath").v ELSE << >>

\* A path that starts with '/' as it appears under the applied base path.
UnderBase(p) ==
    IF AppliedBase = << >> THEN p
    ELSE IF p = << "/" >> THEN AppliedBase
    ELSE AppliedBase \o p

-----------------------------------------------------------------------------
(* Properties of the names the two conversions put between braces.         *)

\* Index of the first character of s after position i that is in stops,
\* Len(s) + 1 when there is none.
NextIn(s, i, stops) ==
    IF \E d \in (i + 1)..Len(s) : s[d] \in stops
    THEN CHOOSE d \in (i + 1)..Len(s) :
             s[d] \in stops /\ \A e \in (i + 1)..(d - 1) : s[e] \notin stops
    ELSE Len(s) + 1

IsPrefix(a, b) == Len(a) <= Len(b) /\ SubSeq(b, 1, Len(a)) = a

IsSuffix(a, b) == Len(a) <= Len(b) /\ SubSeq(b, Len(b) - Len(a) + 1, Len(b)) = a

\* The delimiters of the type-level conversion, as the description lists them.
TypeDelimiter == {"/", ".", "-", ")", "(", "?", "&", ":"}

\* The characters of a name, as the description of the algorithm lists them:
\* alphanumeric or underscore. The patterns drawn hold two of them.
AlphanumericOrUnderscore == {"a", "b", "_", "0", "9", "A", "Z", "z"}

\* C14: for a pattern that contains '?', the type-level result is the
\* type-level conversion of the part before the first '?' and holds no '?'.
TypeLevelQueryStripped ==
    (typePath.t # "none" /\ Contains(pattern, "?")) =>
        /\ typePath = Str(ToOpenApiPath(BeforeQuery(pattern)))
        /\ ~Contains(typePath.v, "?")

\* C19, as stated: the name the runtime conversion puts between braces for a
\* ':' token runs from the colon to the next path separator, dot, hyphen,
\* parenthesis, question mark or colon, or to the end of the string.
RuntimeNameRunsToDelimiter ==
    Called =>
        LET p == BeforeQuery(pattern)
        IN  \A i \in 1..Len(p) :
                (p[i] = ":" /\ i < Len(p) /\ p[i + 1] \in AlphanumericOrUnderscore) =>
                    LET d == NextIn(p, i, TokenDelimiter)
                    IN  IsPrefix(replace(SubSeq(p, 1, i - 1))
                                   \o << "{" >> \o SubSeq(p, i + 1, d - 1) \o << "}" >>,
                                 path.v)

\* C19, amended: the name runs from the colon to the next character that is
\* not alphanumeric or underscore, or to the end of the string.
RuntimeNameRunsToNonNameCharacter ==
    Called =>
        LET p == BeforeQuery(pattern)
        IN  \A i \in 1..Len(p) :
                (p[i] = ":" /\ i < Len(p) /\ p[i + 1] \in AlphanumericOrUnderscore) =>
                    LET d == NextIn(p, i, Alphabet \ AlphanumericOrUnderscore)
                    IN  IsPrefix(replace(SubSeq(p, 1, i - 1))
                                   \o << "{" >> \o SubSeq(p, i + 1, d - 1) \o << "}" >>
                                   \o (IF d <= Len(p) /\ p[d] # ":" THEN << p[d] >> ELSE << >>),
                                 path.v)

\* ':ab{' has been converted to '{ab}{': the name ends at the brace, which
\* is no delimiter.
RuntimeNameWitness ==
    /\ pattern = << ":", "a", "b", "{" >>
    /\ path = Str(<< "{", "a", "b", "}", "{" >>)

\* C20: for each ':' of the pattern the type-level conversion puts between
\* braces the characters after it up to the first delimiter or the end, and
\* the delimiter and the text after it follow, converted in turn.
TypeNameRunsToDelimiter ==
    typePath.t # "none" =>
        \A i \in 1..Len(pattern) :
            pattern[i] = ":" =>
                LET d == NextIn(pattern, i, TypeDelimiter)
                    converted == << "{" >> \o SubSeq(pattern, i + 1, d - 1) \o << "}" >>
                                   \o ToOpenApiPath(SubSeq(pattern, d, Len(pattern)))
                IN  /\ IsSuffix(converted, typePath.v)
                    /\ i = IndexOf(pattern, ":") =>
                           typePath.v = SubSeq(pattern, 1, i - 1) \o converted
                    /\ d <= Len(pattern) /\ pattern[d] \notin {":", "?"} =>
                           IsSuffix(<< "}", pattern[d] >>
                                      \o ToOpenApiPath(SubSeq(pattern, d + 1, Len(pattern))),
                                    typePath.v)

\* '/:a-' has been converted to '/{a}-' at the type level: the hyphen ends
\* the name and is kept.
TypeNameWitness ==
    /\ pattern = << "/", ":", "a", "-" >>
    /\ typePath = Str(<< "/", "{", "a", "}", "-" >>)

-----------------------------------------------------------------------------
(* Properties of createRouter's use of the builder.                        *)

CallsOf(op) ==
    LET idx == {i \in 1..Len(builderCalls) : builderCalls[i].op = op}
        RECURSIVE pick(_)
        pick(i) == IF i > Len(builderCalls) THEN << >>
                   ELSE IF i \in idx THEN << builderCalls[i].arg >> \o pick(i + 1)
                   ELSE pick(i + 1)
    IN  pick(1)

\* The middleware the options give, as a list: a single handler is a list
\* of one.
GivenMiddleware ==
    LET m == Get(options, "middleware")
    IN  IF m.t = "array" THEN m.v
        ELSE IF m.t = "function" THEN << m >>
        ELSE << >>

\* C13, as stated: every basePath given is handed to the builder's basePath,
\* every middleware given to its use, unchanged and once each, in order;
\* with no options neither is called.
OptionsForwardedVerbatim ==
    instance # 0 =>
        /\ CallsOf("basePath") =
               IF Has(options, "basePath") THEN << Get(options, "basePath") >> ELSE << >>
        /\ CallsOf("use") = GivenMiddleware
        /\ options = Undefined => Len(builderCalls) = 1

\* C13, amended: a basePath that is a non-empty string is handed to the
\* builder's basePath; an empty one, like none, is not.
OptionsForwardedUnlessEmpty ==
    instance # 0 =>
        /\ CallsOf("basePath") =
               IF Has(options, "basePath") /\ Get(options, "basePath").v # << >>
               THEN << Get(options, "basePath") >> ELSE << >>
        /\ CallsOf("use") = GivenMiddleware
        /\ hono[instance].middleware = GivenMiddleware
        /\ options = Undefined => Len(builderCalls) = 1

\* A router has been created with basePath '/b' and a single middleware:
\* one basePath call and one use call.
OptionsWitness ==
    /\ instance = 2
    /\ Get(options, "basePath") = Str(<< "/", "b" >>)
    /\ Get(options, "middleware") = Mw1
    /\ Len(builderCalls) = 3
    /\ builderCalls[3].arg = Mw1

-----------------------------------------------------------------------------
(* Properties of the json helper.                                          *)

\* Every header of the list is among the response's headers, with its value.
HeadersInclude(headers, list) ==
    \A i \in 1..Len(list.v) :
        HeadersGet(headers, list.v[i][1]) = Str(<< list.v[i][2] >>)

JsonInitHonoured ==
    (response # None /\ Len(jsonArgs) = 2) =>
        LET init == jsonArgs[2]
        IN  /\ init.t = "number" => response.status = init.v
            /\ Has(init, "status") => response.status = Get(init, "status").v
            /\ Has(init, "headers") =>
                   HeadersInclude(response.headers, Get(init, "headers"))

\* json(value, { status: 404, headers }) with two headers returned a 404
\* carrying both.
JsonInitWitness ==
    /\ Len(jsonArgs) = 2
    /\ Has(jsonArgs[2], "status")
    /\ Has(jsonArgs[2], "headers")
    /\ Len(Get(jsonArgs[2], "headers").v) = 2
    /\ response # None
    /\ response.status = 404
    /\ HeadersGet(response.headers, << "X", "-", "B" >>) = Str(<< "w" >>)

\* C17: json(object, status, headers) has the status given and every header
\* given.
ThreeArgumentFormHonoured ==
    (response # None /\ Len(jsonArgs) = 3) =>
        /\ response.status = jsonArgs[2].v
        /\ HeadersInclude(response.headers, jsonArgs[3])

-----------------------------------------------------------------------------
(* Properties of serving a mapped route.                                   *)

\* The config router.map was given.
Mapped == mapCalls[1].config

\* The parts the mapped config declares a schema for, as validation
\* targets: params, body, and query, which a spec made by createSpec
\* declares as searchParams.
MappedTargets ==
    {tg \in RequestTargets :
        \/ tg = "param" /\ Declares(Mapped, "params")
        \/ tg = "json" /\ Declares(Mapped, "body")
        \/ tg = "query" /\ Declares(Mapped, "query")
        \/ tg = "query" /\ mapCalls[1].from # None /\ Declares(Mapped, "searchParams")}

Fails(req) == MappedTargets \ req.ok # {}

CallsFor(req) ==
    {i \in 1..Len(handlerCalls) : handlerCalls[i].args[1].request.id = req.id}

Expected(target, field, req) ==
    IF Declares(Mapped, field)
    THEN ValidatedData(target, Get(Get(Mapped, "request"), field), req)
    ELSE Undefined

-----------------------------------------------------------------------------
(* What the runtime conversion leaves alone and what it guarantees.        *)

\* A match of ':' followed by name characters starts at i.
MatchStart(s, i) == i < Len(s) /\ s[i] = ":" /\ s[i + 1] \in NameChar

\* The character at i belongs to a match: it starts one, or it is a name
\* character in the run right after a match's ':'.
InMatch(s, i) ==
    \/ MatchStart(s, i)
    \/ \E j \in 1..(i - 1) :
           /\ MatchStart(s, j)
           /\ \A k \in (j + 1)..i : s[k] \in NameChar

\* The character at i is the last one of a match.
MatchEnd(s, i) ==
    /\ InMatch(s, i)
    /\ ~MatchStart(s, i)
    /\ i < Len(s) => s[i + 1] \notin NameChar

Matches(s) == Cardinality({i \in 1..Len(s) : MatchStart(s, i)})

Count(s, c) == Cardinality({i \in 1..Len(s) : s[i] = c})

\* Where the character at i of the input lands in the output: one place
\* further for every match that ended before it.
Landing(s, i) == i + Cardinality({j \in 1..(i - 1) : MatchEnd(s, j)})

\* C21: every character before the first '?' that is in no match is in the
\* output, unchanged and in order; a ':' with no name character after it
\* stays ':', and braces come from matches only.
OnlyTokensChanged ==
    Called =>
        LET p == BeforeQuery(pattern)
            out == path.v
        IN  /\ \A i \in 1..Len(p) :
                   ~InMatch(p, i) =>
                       /\ Landing(p, i) <= Len(out)
                       /\ out[Landing(p, i)] = p[i]
            /\ Count(out, "{") = Count(p, "{") + Matches(p)
            /\ Count(out, "}") = Count(p, "}") + Matches(p)
            /\ Count(out, ":") = Count(p, ":") - Matches(p)

\* '::a:' has been converted to ':{a}:': the ':' before the match and the
\* ':' at the end are kept.
OnlyTokensChangedWitness ==
    /\ pattern = << ":", ":", "a", ":" >>
    /\ path = Str(<< ":", "{", "a", "}", ":" >>)

-----------------------------------------------------------------------------
(* Order and place of the registrations a router makes.                    *)

\* The router has its middleware, in the order given and each once, all on
\* the instance createRouter returned, and that instance has one route per
\* router.map call, in order; nothing is on the instance left behind a base
\* path, and nothing is mapped before the router exists.
RegisteredOnReturnedInstance ==
    IF instance = 0
    THEN mapCalls = << >> /\ hono = << >>
    ELSE /\ hono[instance].middleware = GivenMiddleware
         /\ \A i \in 1..Len(builderCalls) :
                builderCalls[i].op = "use" => builderCalls[i].on = instance
         /\ Len(hono[instance].routes) = Len(mapCalls)
         /\ \A i \in 1..Len(mapCalls) :
                /\ hono[instance].routes[i].config =
                       Rest(mapCalls[i].config, {"middleware", "hide"})
                /\ hono[instance].routes[i].handler.handler = Fn("handler")
         /\ instance = 2 =>
                /\ Get(options, "basePath") = Str(hono[2].basePath)
                /\ hono[1].middleware = << >>
                /\ hono[1].routes = << >>

\* A step that creates the router leaves it with all its middleware and no
\* route; a later step registers no middleware.
MiddlewareThenRoutes ==
    /\ instance = 0 /\ instance' # 0 =>
           /\ hono'[instance'].middleware = toMiddlewares(Get(options', "middleware"))
           /\ hono'[instance'].routes = << >>
    /\ instance # 0 =>
           /\ instance' = instance
           /\ hono'[instance].middleware = hono[instance].middleware

\* C22: middleware is registered in array order, each handler once (a single
\* handler as an array of one), all of it before any route is mapped; with a
\* basePath the middleware and the routes are on the base-pathed instance
\* createRouter returns.
MiddlewareBeforeRoutes ==
    [] RegisteredOnReturnedInstance /\ [][MiddlewareThenRoutes]_vars

\* A router under '/b' with two middleware has them in order, and one route
\* mapped after them.
MiddlewareWitness ==
    /\ instance = 2
    /\ Get(options, "middleware") = Arr(<< Mw1, Mw2 >>)
    /\ hono[2].middleware = << Mw1, Mw2 >>
    /\ Len(mapCalls) = 1
    /\ Len(hono[2].routes) = 1

-----------------------------------------------------------------------------
(* Properties of the call router.map makes to the handler.                 *)

\* C23: the handler is called with two arguments, the route context and a
\* next function.
HandlerCalledWithNext ==
    \A i \in 1..Len(handlerCalls) :
        /\ Len(handlerCalls[i].args) = 2
        /\ handlerCalls[i].args[2].t = "function"

\* The calls of the handler made for the request numbered id.
CallsForId(id) ==
    {i \in 1..Len(handlerCalls) : handlerCalls[i].args[1].request.id = id}

\* C24: the one router.map call has registered one route, for its config; a
\* request that reaches the route has the handler called once, never more;
\* what the handler returns, awaited when it is a promise, is the response,
\* and what it throws is what the wrapper's promise is rejected with.
HandlerRunOnceResultForwarded ==
    /\ Len(hono[instance].routes) = Len(mapCalls)
    /\ Served.config = Rest(Mapped, {"middleware", "hide"})
    /\ Served.handler = Wrapper(Handler)
    /\ \A id \in 1..received : Cardinality(CallsForId(id)) <= 1
    /\ (received > 0 /\ phase = "idle" /\ ~Fails(request)) =>
           /\ Cardinality(CallsForId(request.id)) = 1
           /\ LET r == handlerCalls[CHOOSE i \in CallsForId(request.id) : TRUE].result
              IN  IF r.kind = "throw" THEN settled = Rejected(r.value)
                  ELSE IF r.value.t = "promise"
                       THEN IF r.value.state = "rejected"
                            THEN settled = Rejected(r.value.value)
                            ELSE settled = r.value /\ reply = r.value.value
                  ELSE settled = Fulfilled(r.value) /\ reply = r.value

\* The handler was called once for a valid request and threw: the wrapper's
\* promise is rejected with that error, and the server's error handler
\* answered.
HandlerThrowsWitness ==
    /\ received = 1
    /\ phase = "idle"
    /\ Len(handlerCalls) = 1
    /\ handlerCalls[1].result = Throws(HandlerError)
    /\ settled = Rejected(HandlerError)
    /\ reply = ErrorResponse(HandlerError)

-----------------------------------------------------------------------------
(* Properties of createSpec beyond the declared shape of its config.       *)

\* C25: whatever fields the config carries, the spec's path and method are
\* the route's, converted.
SpecPathAndMethodAlwaysFromRoute ==
    spec.t # "none" =>
        /\ Get(spec, "path") = toOpenApiPath(pattern)
        /\ Get(spec, "method") = toOpenApiMethod(method)

\* A createSpec step leaves the route and the config as they were, the
\* config's request still with its searchParams and without query, and the
\* spec it returns has the request's searchParams as given.
CreateSpecKeepsArguments ==
    spec' # spec =>
        /\ config' = config
        /\ pattern' = pattern
        /\ method' = method
        /\ ~Has(Get(config', "request"), "query")
        /\ Get(Get(config', "request"), "searchParams")
               = Get(Get(config, "request"), "searchParams")
        /\ Get(Get(spec', "request"), "searchParams")
               = Get(Get(config, "request"), "searchParams")

-----------------------------------------------------------------------------
(* Shape of the converted path.                                            *)

\* C27: the output has no '?', no ':' with a name character right after it,
\* and is as long as the input before its first '?' plus one for each match
\* replaced.
OutputShape ==
    Called =>
        LET p == BeforeQuery(pattern)
            out == path.v
        IN  /\ ~Contains(out, "?")
            /\ \A i \in 1..(Len(out) - 1) :
                   out[i] = ":" => out[i + 1] \notin NameChar
            /\ Len(out) = Len(p) + Matches(p)

\* '::a?' has been converted to ':{a}': one character longer than '::a',
\* no '?', and the ':' left is followed by '{'.
OutputShapeWitness ==
    /\ pattern = << ":", ":", "a", "?" >>
    /\ path = Str(<< ":", "{", "a", "}" >>)

\* Every '{name}' of s rewritten to ':name', the rest kept.
RECURSIVE Unbrace(_)
Unbrace(s) ==
    IF s = << >> THEN << >>
    ELSE LET n == NameRun(Tail(s))
         IN  IF Head(s) = "{" /\ n > 0 /\ n + 2 <= Len(s) /\ s[n + 2] = "}"
             THEN << ":" >> \o SubSeq(s, 2, n + 1) \o Unbrace(SubSeq(s, n + 3, Len(s)))
             ELSE << Head(s) >> \o Unbrace(Tail(s))

\* s has no brace, and each of its ':' has a name character right after it.
Reversible(s) ==
    /\ ~Contains(s, "{")
    /\ ~Contains(s, "}")
    /\ \A i \in 1..Len(s) : s[i] = ":" => MatchStart(s, i)

\* C28: for a pattern whose part before the first '?' has no brace and no
\* ':' without a name, rewriting each '{name}' of the output to ':name'
\* gives that part back, so the output determines it.
ConversionReversible ==
    (Called /\ Reversible(BeforeQuery(pattern))) =>
        Unbrace(path.v) = BeforeQuery(pattern)

\* ':a:b' has been converted to '{a}{b}', which rewrites back to ':a:b'.
ReversibleWitness ==
    /\ pattern = << ":", "a", ":", "b" >>
    /\ path = Str(<< "{", "a", "}", "{", "b", "}" >>)
    /\ Unbrace(path.v) = pattern

-----------------------------------------------------------------------------
(* What createRouter hands to the builder's constructor.                   *)

\* C29: the constructor is called once, with an object that has every
\* option given except basePath and middleware, each with its value, and
\* neither of the two; with no options the object is empty.
ConstructorGetsOtherOptions ==
    instance # 0 =>
        LET init == builderCalls[1].arg
            given == IF options = Undefined THEN << >> ELSE options.f
        IN  /\ builderCalls[1].op = "new"
            /\ Len(CallsOf("new")) = 1
            /\ init.t = "object"
            /\ DOMAIN init.f = (DOMAIN given) \ {"basePath", "middleware"}
            /\ \A k \in DOMAIN init.f : init.f[k] = given[k]
            /\ hono[1].init = init
            /\ options = Undefined => init = EmptyObj

\* createRouter({ basePath: '/b', middleware, strict: false }) has called
\* the constructor with { strict: false }.
ConstructorWitness ==
    /\ instance = 2
    /\ Has(options, "basePath") /\ Has(options, "middleware")
    /\ Get(options, "strict") = Bool(FALSE)
    /\ builderCalls[1].arg = Obj("strict" :> Bool(FALSE))

-----------------------------------------------------------------------------
(* The type-level split of a string into a name and what follows it.       *)

\* C30: the name ExtractParamName gives, followed by what SkipParamName
\* gives, is the string itself; the name holds no delimiter, and what
\* follows it is empty or starts with one.
NameSplitLossless ==
    /\ (paramName # None /\ afterName # None) =>
           paramName.v \o afterName.v = pattern
    /\ paramName # None =>
           \A i \in 1..Len(paramName.v) : paramName.v[i] \notin ParamDelimiter
    /\ afterName # None =>
           afterName.v = << >> \/ Head(afterName.v) \in ParamDelimiter

\* 'ab-:' has been split into the name 'ab' and the rest '-:'.
NameSplitWitness ==
    /\ pattern = << "a", "b", "-", ":" >>
    /\ paramName = Str(<< "a", "b" >>)
    /\ afterName = Str(<< "-", ":" >>)

====
